---- MODULE Spec2Model ----
(***************************************************************************)
(* AT2 Bank (brb_dt_at2): the replicated ledger data type of src/bank.rs.  *)
(* Every replica owns one Bank {id, deps, initial_balances, hist}; the     *)
(* broadcast engine calls validate(source, op) and, when it answers Ok,    *)
(* apply(op).  Money is an unsigned fixed-width integer, scaled down here  *)
(* to the range 0..MoneyMax; sums of Money wrap modulo MoneyMax + 1 or     *)
(* abort, as the build's overflow checks decide.                           *)
(***************************************************************************)
EXTENDS Integers, FiniteSets, Sequences, TLC

\* ------------------------------------------------------------------ bounds

\* Money::max_value(), scaled down (the width of Money is MoneyMax + 1 values).
MoneyMax == 1

\* Most distinct transfers a replica records before the engine stops feeding it.
MaxHist == 2

\* The same cap for the longer runs of SpecDeep.
MaxHistDeep == 3

\* The same cap while the engine also makes validate calls that it records.
MaxHistCalls == 1

\* The same cap for each of two replicas that are fed side by side.
MaxHistPair == 1

\* The same cap for a replica that is made to apply ops nobody validated.
MaxHistRaw == 2

\* ---------------------------------------------------------------- universe

Actors == {"a", "b", "c"}

\* The replicas that are modelled; replica r holds the Bank created by new(r).
\* Replicas never read each other's state: only the engine's calls change a Bank.
Replicas == {"a", "b"}

\* The replica whose deliveries Spec follows; the other one is still waiting.
Primary == "a"

Money == 0..MoneyMax

MoneyModulus == MoneyMax + 1

VARIABLES
    banks,            \* banks[r]: the Bank of replica r
    overflow_checks,  \* TRUE: integer overflow aborts (debug build); FALSE: it wraps
    last,             \* what the engine's last call was and what it returned
    applied           \* applied[r]: the ops the engine has validated and delivered to r

vars == <<banks, overflow_checks, last, applied>>

\* ------------------------------------------------------------ value types

\* struct Transfer { from, to, amount, deps }
Transfer(from, to, amount, deps) ==
    [from |-> from, to |-> to, amount |-> amount, deps |-> deps]

\* Op::Transfer(transfer)
OpTransfer(t) == [type |-> "Transfer", transfer |-> t]

\* Op::OpenAccount { owner, balance }
OpOpenAccount(owner, balance) ==
    [type |-> "OpenAccount", owner |-> owner, balance |-> balance]

\* Bank::open_account: a pure constructor
open_account(bank, owner, balance) == OpOpenAccount(owner, balance)

\* ------------------------------------------------------- results of calls

\* A call either returns a value or panics (aborts) at a named place.
Ret(v) == [tag |-> "Ret", val |-> v, why |-> ""]

Panic(why) == [tag |-> "Panic", val |-> 0, why |-> why]

\* Result<(), ValidationError>, plus the abort of a panicking validate
Verdict(tag, balance, amount, why) ==
    [tag |-> tag, balance |-> balance, transfer_amount |-> amount, why |-> why]

Ok == Verdict("Ok", 0, 0, "")

Err(tag) == Verdict(tag, 0, 0, "")

InsufficientFunds(balance, amount) == Verdict("InsufficientFunds", balance, amount, "")

Aborted(why) == Verdict("Panic", 0, 0, why)

\* ------------------------------------------------------------------- reads

\* BRBDataType::new
new(id) == [id |-> id, deps |-> {}, initial_balances |-> <<>>, hist |-> <<>>]

\* Bank::initial_balance: panics when the actor has no entry
initial_balance(bank, actor) ==
    IF actor \in DOMAIN bank.initial_balances
    THEN Ret(bank.initial_balances[actor])
    ELSE Panic("No initial balance")

\* Bank::history
history(bank, actor) ==
    IF actor \in DOMAIN bank.hist THEN bank.hist[actor] ELSE {}

\* The mathematical sum of the amounts of a set of transfers
RECURSIVE SumAmounts(_)
SumAmounts(S) ==
    IF S = {} THEN 0
    ELSE LET t == CHOOSE x \in S : TRUE
         IN  t.amount + SumAmounts(S \ {t})

\* Iterator::sum::<Money>(): aborts on overflow when the build checks it,
\* wraps modulo the width of Money otherwise.
MoneySum(S, checks) ==
    LET total == SumAmounts(S)
    IN  IF total <= MoneyMax THEN Ret(total)
        ELSE IF checks THEN Panic("attempt to add with overflow")
        ELSE Ret(total % MoneyModulus)

\* Bank::balance
balance(bank, actor, checks) ==
    LET h        == history(bank, actor)
        outgoing == MoneySum({t \in h : t.from = actor}, checks)
        incoming == MoneySum({t \in h : t.to = actor}, checks)
        init     == initial_balance(bank, actor)
    IN  IF outgoing.tag = "Panic" THEN outgoing
        ELSE IF incoming.tag = "Panic" THEN incoming
        ELSE IF init.tag = "Panic" THEN init
        ELSE LET balance_delta == incoming.val - outgoing.val
                 bal           == init.val + balance_delta
             IN  IF ~(bal >= 0) THEN Panic("assert balance >= 0")
                 ELSE IF ~(bal <= MoneyMax) THEN Panic("assert balance <= max")
                 ELSE Ret(bal)

\* ---------------------------------------------------------------- validate

\* validate on a transfer without the funds check
validate_transfer_unfunded(bank, source, transfer, checks) ==
    IF source # transfer.from THEN Err("NotInitiatedByAccountOwner")
    ELSE IF transfer.from \notin DOMAIN bank.initial_balances
    THEN Err("FromAccountDoesNotExist")
    ELSE IF transfer.to \notin DOMAIN bank.initial_balances
    THEN Err("ToAccountDoesNotExist")
    ELSE IF ~(transfer.deps \subseteq history(bank, transfer.from))
    THEN Err("MissingDependentOps")
    ELSE Ok

\* validate on a transfer checking its deps against the replica's own frontier
validate_transfer_frontier(bank, source, transfer, checks) ==
    IF source # transfer.from THEN Err("NotInitiatedByAccountOwner")
    ELSE IF transfer.from \notin DOMAIN bank.initial_balances
    THEN Err("FromAccountDoesNotExist")
    ELSE IF transfer.to \notin DOMAIN bank.initial_balances
    THEN Err("ToAccountDoesNotExist")
    ELSE LET b == balance(bank, transfer.from, checks)
         IN  IF b.tag = "Panic" THEN Aborted(b.why)
             ELSE IF b.val < transfer.amount
             THEN InsufficientFunds(b.val, transfer.amount)
             ELSE IF ~(transfer.deps \subseteq bank.deps)
             THEN Err("MissingDependentOps")
             ELSE Ok

\* validate on a transfer checking its deps against the recipient's history
validate_transfer_recipient_history(bank, source, transfer, checks) ==
    IF source # transfer.from THEN Err("NotInitiatedByAccountOwner")
    ELSE IF transfer.from \notin DOMAIN bank.initial_balances
    THEN Err("FromAccountDoesNotExist")
    ELSE IF transfer.to \notin DOMAIN bank.initial_balances
    THEN Err("ToAccountDoesNotExist")
    ELSE LET b == balance(bank, transfer.from, checks)
         IN  IF b.tag = "Panic" THEN Aborted(b.why)
             ELSE IF b.val < transfer.amount
             THEN InsufficientFunds(b.val, transfer.amount)
             ELSE IF ~(transfer.deps \subseteq history(bank, transfer.to))
             THEN Err("MissingDependentOps")
             ELSE Ok

\* validate on a transfer without the check that its owner sent it
validate_transfer_any_source(bank, source, transfer, checks) ==
    IF transfer.from \notin DOMAIN bank.initial_balances
    THEN Err("FromAccountDoesNotExist")
    ELSE IF transfer.to \notin DOMAIN bank.initial_balances
    THEN Err("ToAccountDoesNotExist")
    ELSE LET b == balance(bank, transfer.from, checks)
         IN  IF b.tag = "Panic" THEN Aborted(b.why)
             ELSE IF b.val < transfer.amount
             THEN InsufficientFunds(b.val, transfer.amount)
             ELSE IF ~(transfer.deps \subseteq history(bank, transfer.from))
             THEN Err("MissingDependentOps")
             ELSE Ok

\* validate on a transfer looking at the funds before it looks at the sender
validate_transfer_funds_first(bank, source, transfer, checks) ==
    IF transfer.from \notin DOMAIN bank.initial_balances
    THEN Err("FromAccountDoesNotExist")
    ELSE IF transfer.to \notin DOMAIN bank.initial_balances
    THEN Err("ToAccountDoesNotExist")
    ELSE LET b == balance(bank, transfer.from, checks)
         IN  IF b.tag = "Panic" THEN Aborted(b.why)
             ELSE IF b.val < transfer.amount
             THEN InsufficientFunds(b.val, transfer.amount)
             ELSE IF source # transfer.from
             THEN Err("NotInitiatedByAccountOwner")
             ELSE IF ~(transfer.deps \subseteq history(bank, transfer.from))
             THEN Err("MissingDependentOps")
             ELSE Ok

\* validate on a transfer without the check of its deps
validate_transfer_uncited(bank, source, transfer, checks) ==
    IF source # transfer.from THEN Err("NotInitiatedByAccountOwner")
    ELSE IF transfer.from \notin DOMAIN bank.initial_balances
    THEN Err("FromAccountDoesNotExist")
    ELSE IF transfer.to \notin DOMAIN bank.initial_balances
    THEN Err("ToAccountDoesNotExist")
    ELSE LET b == balance(bank, transfer.from, checks)
         IN  IF b.tag = "Panic" THEN Aborted(b.why)
             ELSE IF b.val < transfer.amount
             THEN InsufficientFunds(b.val, transfer.amount)
             ELSE Ok

\* validate on a transfer without the check that the recipient has an account
validate_transfer_any_recipient(bank, source, transfer, checks) ==
    IF source # transfer.from THEN Err("NotInitiatedByAccountOwner")
    ELSE IF transfer.from \notin DOMAIN bank.initial_balances
    THEN Err("FromAccountDoesNotExist")
    ELSE LET b == balance(bank, transfer.from, checks)
         IN  IF b.tag = "Panic" THEN Aborted(b.why)
             ELSE IF b.val < transfer.amount
             THEN InsufficientFunds(b.val, transfer.amount)
             ELSE IF ~(transfer.deps \subseteq history(bank, transfer.from))
             THEN Err("MissingDependentOps")
             ELSE Ok

\* validate on a transfer looking at the funds before it looks for the accounts
validate_transfer_funds_before_accounts(bank, source, transfer, checks) ==
    IF source # transfer.from THEN Err("NotInitiatedByAccountOwner")
    ELSE LET b == balance(bank, transfer.from, checks)
         IN  IF b.tag = "Panic" THEN Aborted(b.why)
             ELSE IF b.val < transfer.amount
             THEN InsufficientFunds(b.val, transfer.amount)
             ELSE IF transfer.from \notin DOMAIN bank.initial_balances
             THEN Err("FromAccountDoesNotExist")
             ELSE IF transfer.to \notin DOMAIN bank.initial_balances
             THEN Err("ToAccountDoesNotExist")
             ELSE IF ~(transfer.deps \subseteq history(bank, transfer.from))
             THEN Err("MissingDependentOps")
             ELSE Ok

\* BRBDataType::validate, the Op::Transfer arm
validate_transfer(bank, source, transfer, checks) ==
    IF source # transfer.from THEN Err("NotInitiatedByAccountOwner")
    ELSE IF transfer.from \notin DOMAIN bank.initial_balances
    THEN Err("FromAccountDoesNotExist")
    ELSE IF transfer.to \notin DOMAIN bank.initial_balances
    THEN Err("ToAccountDoesNotExist")
    ELSE LET b == balance(bank, transfer.from, checks)
         IN  IF b.tag = "Panic" THEN Aborted(b.why)
             ELSE IF b.val < transfer.amount
             THEN InsufficientFunds(b.val, transfer.amount)
             ELSE IF ~(transfer.deps \subseteq history(bank, transfer.from))
             THEN Err("MissingDependentOps")
             ELSE Ok

\* validate on an account opening with its two checks in the other order
validate_open_account_swapped(bank, source, owner) ==
    IF owner \in DOMAIN bank.initial_balances
    THEN Err("OwnerAlreadyHasAnAccount")
    ELSE IF source # owner THEN Err("NotInitiatedByAccountOwner")
    ELSE Ok

\* validate on an account opening that lets an owner open an account again
validate_open_account_reopening(bank, source, owner) ==
    IF source # owner THEN Err("NotInitiatedByAccountOwner") ELSE Ok

\* BRBDataType::validate, the Op::OpenAccount arm
validate_open_account(bank, source, owner) ==
    IF source # owner THEN Err("NotInitiatedByAccountOwner")
    ELSE IF owner \in DOMAIN bank.initial_balances
    THEN Err("OwnerAlreadyHasAnAccount")
    ELSE Ok

\* BRBDataType::validate
validate(bank, source, op, checks) ==
    IF op.type = "Transfer"
    THEN validate_transfer(bank, source, op.transfer, checks)
    ELSE validate_open_account(bank, source, op.owner)

\* ------------------------------------------------------------------- apply

\* An insert that replaces the actor's history by the one transfer
hist_insert_replacing(hist, actor, transfer) ==
    (actor :> {transfer}) @@ hist

\* self.hist.entry(actor).or_default().insert(transfer)
hist_insert(hist, actor, transfer) ==
    (actor :> (IF actor \in DOMAIN hist THEN hist[actor] ELSE {}) \cup {transfer})
        @@ hist

\* The deps after apply when a receipt brings the transfers it cites with it
apply_deps_inheriting(bank, transfer) ==
    LET added == IF transfer.to = bank.id
                 THEN bank.deps \cup {transfer} \cup transfer.deps
                 ELSE bank.deps
    IN  IF transfer.from = bank.id THEN added \ transfer.deps ELSE added

\* The deps after apply when the cited transfers leave deps whoever the sender
apply_deps_any_sender(bank, transfer) ==
    LET added == IF transfer.to = bank.id
                 THEN bank.deps \cup {transfer}
                 ELSE bank.deps
    IN  added \ transfer.deps

\* The deps of the Bank after apply(Op::Transfer(transfer))
apply_deps(bank, transfer) ==
    LET added == IF transfer.to = bank.id
                 THEN bank.deps \cup {transfer}
                 ELSE bank.deps
    IN  IF transfer.from = bank.id THEN added \ transfer.deps ELSE added

\* apply on a transfer recording the incoming side only at the recipient's Bank
apply_transfer_own_receipts(bank, transfer) ==
    [bank EXCEPT
        !.hist = IF transfer.to = bank.id
                 THEN hist_insert(hist_insert(@, transfer.from, transfer),
                                  transfer.to, transfer)
                 ELSE hist_insert(@, transfer.from, transfer),
        !.deps = apply_deps(bank, transfer)]

\* BRBDataType::apply, the Op::Transfer arm
apply_transfer(bank, transfer) ==
    [bank EXCEPT
        !.hist = hist_insert(hist_insert(@, transfer.from, transfer),
                             transfer.to, transfer),
        !.deps = apply_deps(bank, transfer)]

\* BRBDataType::apply, the Op::OpenAccount arm
apply_open_account(bank, owner, bal) ==
    [bank EXCEPT !.initial_balances = (owner :> bal) @@ @]

\* BRBDataType::apply
apply(bank, op) ==
    IF op.type = "Transfer"
    THEN apply_transfer(bank, op.transfer)
    ELSE apply_open_account(bank, op.owner, op.balance)

\* ---------------------------------------------------------------- transfer

\* Option<Op>, plus the abort of a panicking transfer()
None == [tag |-> "None", op |-> OpOpenAccount("", 0), why |-> ""]

Some(op) == [tag |-> "Some", op |-> op, why |-> ""]

NoOption(why) == [tag |-> "Panic", op |-> OpOpenAccount("", 0), why |-> why]

\* A builder that cites every transfer the Bank has recorded
transfer_citing_all(bank, from, to, amount, checks) ==
    LET b == balance(bank, from, checks)
    IN  IF b.tag = "Panic" THEN NoOption(b.why)
        ELSE IF b.val < amount THEN None
        ELSE Some(OpTransfer(Transfer(from, to, amount,
                 UNION {bank.hist[x] : x \in DOMAIN bank.hist})))

\* Bank::transfer: builds the op, citing the Bank's own frontier, or declines
transfer(bank, from, to, amount, checks) ==
    LET b == balance(bank, from, checks)
    IN  IF b.tag = "Panic" THEN NoOption(b.why)
        ELSE IF b.val < amount THEN None
        ELSE Some(OpTransfer(Transfer(from, to, amount, bank.deps)))

\* ------------------------------------------------------------ the engine

\* Every transfer a replica has recorded, under any actor
Recorded(bank) == UNION {bank.hist[x] : x \in DOMAIN bank.hist}

\* A transfer that reaches a replica only as a dependency cited by another.
Foreign == Transfer("c", "a", 1, {})

\* The deps an incoming transfer may cite: transfers this replica has recorded
\* and one it may never have seen.
InputDeps(bank) == SUBSET (Recorded(bank) \cup {Foreign})

\* The operations the engine may hand to a replica.
OpenOps == {OpOpenAccount(o, m) : o \in Actors, m \in Money}

TransferOps(bank) ==
    {OpTransfer(Transfer(f, t, m, d)) :
        f \in Actors, t \in Actors, m \in Money, d \in InputDeps(bank)}

NoCall == [call |-> "none", result |-> Ok]

Init ==
    /\ banks = [r \in Replicas |-> new(r)]
    /\ overflow_checks \in BOOLEAN
    /\ last = NoCall
    /\ applied = [r \in Replicas |-> {}]

\* Does applying op add a transfer the replica has not recorded yet?
RecordsNew(bank, op) ==
    IF op.type = "Transfer"
    THEN op.transfer \notin history(bank, op.transfer.from)
    ELSE FALSE

\* The engine delivers op, sent by source, to replica r: it applies op only
\* after validate answered Ok.  cap bounds the transfers the replica records.
Deliver(r, source, op, cap) ==
    /\ validate(banks[r], source, op, overflow_checks) = Ok
    /\ RecordsNew(banks[r], op) => Cardinality(Recorded(banks[r])) < cap
    /\ banks' = [banks EXCEPT ![r] = apply(@, op)]
    /\ applied' = [applied EXCEPT ![r] = @ \cup {op}]
    /\ last' = [call |-> "apply", result |-> Ok]
    /\ UNCHANGED overflow_checks

DeliverOpenAccount(r, cap) ==
    \E source \in Actors, op \in OpenOps : Deliver(r, source, op, cap)

\* Only a transfer sent by its own from account and citing transfers recorded
\* under that account can pass validate, so only those are enumerated here;
\* ValidateOp covers the ones that are refused.
DeliverTransfer(r, cap) ==
    \E f \in Actors, t \in Actors, m \in Money :
        \E d \in SUBSET history(banks[r], f) :
            Deliver(r, f, OpTransfer(Transfer(f, t, m, d)), cap)

\* A validate call that applies the op it accepts
Validate_applying(r, source, op) ==
    /\ last' = [call |-> "validate",
                result |-> validate(banks[r], source, op, overflow_checks)]
    /\ banks' = IF validate(banks[r], source, op, overflow_checks) = Ok
                THEN [banks EXCEPT ![r] = apply(@, op)]
                ELSE banks
    /\ UNCHANGED <<overflow_checks, applied>>

\* The engine asks replica r for its verdict on op sent by source and keeps it.
Validate(r, source, op) ==
    /\ last' = [call |-> "validate",
                result |-> validate(banks[r], source, op, overflow_checks)]
    /\ UNCHANGED <<banks, overflow_checks, applied>>

ValidateOp(r) ==
    \E source \in Actors, op \in OpenOps \cup TransferOps(banks[r]) :
        Validate(r, source, op)

Next == DeliverOpenAccount(Primary, MaxHist) \/ DeliverTransfer(Primary, MaxHist)

\* One replica under every sequence of validated deliveries.
Spec == Init /\ [][Next]_vars

NextCalls ==
    \/ DeliverOpenAccount(Primary, MaxHistCalls)
    \/ DeliverTransfer(Primary, MaxHistCalls)
    \/ ValidateOp(Primary)

\* The same replica when the engine also records the verdicts it is given.
SpecCalls == Init /\ [][NextCalls]_vars

NextDeep ==
    DeliverOpenAccount(Primary, MaxHistDeep) \/ DeliverTransfer(Primary, MaxHistDeep)

\* The same replica followed through longer histories.
SpecDeep == Init /\ [][NextDeep]_vars

\* The engine is offered any transfer from any source, citing recorded and
\* unseen transfers alike, and delivers it when validate answers Ok.
DeliverAnyTransfer(r, cap) ==
    \E source \in Actors, op \in TransferOps(banks[r]) :
        Deliver(r, source, op, cap)

NextOffered ==
    DeliverOpenAccount(Primary, MaxHist) \/ DeliverAnyTransfer(Primary, MaxHist)

\* One replica to which every op is offered and validate alone decides.
SpecOffered == Init /\ [][NextOffered]_vars

\* Replica r is made to apply op, validated or not, delivered before or not.
\* This is no delivery of the engine, whose log stays as it is.
Apply(r, op, cap) ==
    /\ RecordsNew(banks[r], op) => Cardinality(Recorded(banks[r])) < cap
    /\ banks' = [banks EXCEPT ![r] = apply(@, op)]
    /\ last' = [call |-> "apply", result |-> Ok]
    /\ UNCHANGED <<overflow_checks, applied>>

ApplyOp(r, cap) ==
    \E op \in OpenOps \cup TransferOps(banks[r]) : Apply(r, op, cap)

NextRaw == ApplyOp(Primary, MaxHistRaw)

\* One replica under every sequence of apply calls.
SpecRaw == Init /\ [][NextRaw]_vars

NextPair ==
    \E r \in Replicas :
        DeliverOpenAccount(r, MaxHistPair) \/ DeliverTransfer(r, MaxHistPair)

\* Two replicas, each fed validated ops in an order of its own.
SpecPair == Init /\ [][NextPair]_vars

\* ------------------------------------------------------- the claims' terms

\* The replica the specifications follow
bank == banks[Primary]

\* The actors that have an account
Accounts == DOMAIN bank.initial_balances

\* Bank::balance as the replica computes it in this build
Balance(actor) == balance(bank, actor, overflow_checks)

\* The balance the ledger entitles an account to, in unbounded arithmetic:
\* its initial balance plus what it received minus what it sent.
LedgerBalance(b, actor) ==
    b.initial_balances[actor]
        + SumAmounts({t \in history(b, actor) : t.to = actor})
        - SumAmounts({t \in history(b, actor) : t.from = actor})

RECURSIVE SumOfBalances(_)
SumOfBalances(S) ==
    IF S = {} THEN 0
    ELSE LET x == CHOOSE y \in S : TRUE
         IN  Balance(x).val + SumOfBalances(S \ {x})

RECURSIVE SumOfInitialBalances(_)
SumOfInitialBalances(S) ==
    IF S = {} THEN 0
    ELSE LET x == CHOOSE y \in S : TRUE
         IN  bank.initial_balances[x] + SumOfInitialBalances(S \ {x})

\* The transfers the claims probe a replica with
ProbeTransfers ==
    {Transfer(f, t, m, d) :
        f \in Actors, t \in Actors, m \in Money, d \in InputDeps(bank)}

\* ------------------------------------------------------------------ claims

\* C1: conservation.  After any sequence of validated applies, balance(a)
\* returns for every account and the balances add up to the sum of the
\* initial balances.
Conservation ==
    /\ \A a \in Accounts : Balance(a).tag = "Ret"
    /\ SumOfBalances(Accounts) = SumOfInitialBalances(Accounts)

\* What does hold of the code: the ledger itself conserves money; only the
\* bounded arithmetic of balance() loses track of it.
LedgerConservation ==
    LET RECURSIVE Total(_)
        Total(S) == IF S = {} THEN 0
                    ELSE LET x == CHOOSE y \in S : TRUE
                         IN  LedgerBalance(bank, x) + Total(S \ {x})
    IN  Total(Accounts) = SumOfInitialBalances(Accounts)

\* C2: no overdraft.  After any sequence of validated applies, the assertion
\* balance >= 0 of balance() never fails and no balance is negative.
NoOverdraft ==
    \A a \in Accounts :
        /\ Balance(a).why # "assert balance >= 0"
        /\ Balance(a).tag = "Ret" => Balance(a).val >= 0

\* C3: no overflow of a balance.  After any sequence of validated applies,
\* the assertion balance <= Money::max_value() of balance() never fails and
\* no account is entitled to more than Money::MAX.
NoBalanceOverflow ==
    \A a \in Accounts :
        /\ Balance(a).why # "assert balance <= max"
        /\ LedgerBalance(bank, a) <= MoneyMax

\* Does the replica refuse t2 once it has applied t1, both sent by x?
NotBoth(x, t1, t2) ==
    ~(/\ validate(bank, x, OpTransfer(t1), overflow_checks) = Ok
      /\ validate(apply(bank, OpTransfer(t1)), x, OpTransfer(t2),
                  overflow_checks) = Ok)

\* C4 as stated: double-spend exclusion.  Whenever an account x holds balance
\* B, for every B, of two transfers of amount B from x to different
\* recipients citing the same deps the replica applies at most one, in
\* whichever order they are delivered.
DoubleSpendExcluded ==
    \A x \in Accounts : \A y \in Actors, z \in Actors, d \in InputDeps(bank) :
        (Balance(x).tag = "Ret" /\ y # z) =>
            NotBoth(x, Transfer(x, y, Balance(x).val, d),
                       Transfer(x, z, Balance(x).val, d))

\* C4 as amended: the same for a balance B > 0, recipients other than x and
\* two transfers the replica has not recorded yet.
DoubleSpendExcludedPositive ==
    \A x \in Accounts : \A y \in Actors, z \in Actors, d \in InputDeps(bank) :
        (/\ Balance(x).tag = "Ret" /\ Balance(x).val > 0
         /\ y # z /\ y # x /\ z # x
         /\ Transfer(x, y, Balance(x).val, d) \notin history(bank, x)
         /\ Transfer(x, z, Balance(x).val, d) \notin history(bank, x)) =>
            NotBoth(x, Transfer(x, y, Balance(x).val, d),
                       Transfer(x, z, Balance(x).val, d))

\* C4, the case reached: x has spent its whole positive balance on a recorded
\* transfer t1, and the twin of t1 to a third account is refused for lack of
\* funds.
DoubleSpendRefused ==
    \E x \in Accounts, z \in Accounts :
        \E t1 \in history(bank, x) :
            /\ t1.from = x /\ t1.to # x /\ z # x /\ z # t1.to
            /\ t1.amount > 0
            /\ Balance(x) = Ret(0)
            /\ validate(bank, x, OpTransfer(Transfer(x, z, t1.amount, t1.deps)),
                        overflow_checks)
                 = InsufficientFunds(0, t1.amount)

Twin(id, deps) == [bank EXCEPT !.id = id, !.deps = deps]

\* C6: replica-independent verdict.  A Bank with the same initial_balances and
\* hist, whatever its id and deps, gives every op from every source the
\* verdict this replica gives.
VerdictIndependentOfReplica ==
    \A source \in Actors :
        \A op \in OpenOps \cup {OpTransfer(t) : t \in ProbeTransfers} :
            \A id \in Actors, deps \in {{}, Recorded(bank) \cup {Foreign}} :
                validate(Twin(id, deps), source, op, overflow_checks)
                    = validate(bank, source, op, overflow_checks)

\* C6, the case reached: the replica has a non-empty frontier, and a transfer
\* citing it passes both here and on a twin with another id and no frontier.
TwinAgrees ==
    /\ bank.deps # {}
    /\ \E f \in Accounts, t \in Accounts :
        LET op == OpTransfer(Transfer(f, t, 1, bank.deps))
        IN  /\ validate(bank, f, op, overflow_checks) = Ok
            /\ validate(Twin("b", {}), f, op, overflow_checks) = Ok

\* C7: idempotence of apply for transfers.  Applying again a transfer the
\* replica has already recorded changes neither hist nor deps.
ReapplyChangesNothing ==
    \A t \in Recorded(bank) :
        /\ apply(bank, OpTransfer(t)).hist = bank.hist
        /\ apply(bank, OpTransfer(t)).deps = bank.deps

\* The verdict C8 describes, with the balance the ledger entitles t.from to
ClaimedTransferVerdict(source, t) ==
    IF source # t.from THEN Err("NotInitiatedByAccountOwner")
    ELSE IF t.from \notin Accounts THEN Err("FromAccountDoesNotExist")
    ELSE IF t.to \notin Accounts THEN Err("ToAccountDoesNotExist")
    ELSE IF LedgerBalance(bank, t.from) < t.amount
    THEN InsufficientFunds(LedgerBalance(bank, t.from), t.amount)
    ELSE IF ~(t.deps \subseteq history(bank, t.from))
    THEN Err("MissingDependentOps")
    ELSE Ok

\* C8: the checks of validate on a transfer.  In every state, for every source
\* and transfer, validate returns the first failing check in the order
\* NotInitiatedByAccountOwner, FromAccountDoesNotExist, ToAccountDoesNotExist,
\* InsufficientFunds (with the balance and the amount), MissingDependentOps,
\* and Ok when none fails.
ValidateTransferChecks ==
    \A source \in Actors : \A t \in ProbeTransfers :
        validate(bank, source, OpTransfer(t), overflow_checks)
            = ClaimedTransferVerdict(source, t)

\* What does hold of the code: whenever balance(t.from) returns the balance
\* the ledger entitles t.from to, validate answers as C8 says.
ValidateTransferChecksWhereBalanceIsRight ==
    \A source \in Actors : \A t \in ProbeTransfers :
        (t.from \in Accounts
            => Balance(t.from) = Ret(LedgerBalance(bank, t.from)))
        => validate(bank, source, OpTransfer(t), overflow_checks)
               = ClaimedTransferVerdict(source, t)

\* C9: the checks of validate on an account opening.  The verdict is
\* NotInitiatedByAccountOwner when source is not the owner, whether or not the
\* owner has an account; otherwise OwnerAlreadyHasAnAccount when it has one;
\* otherwise Ok; whatever the balance asked for.
ValidateOpenAccountChecks ==
    \A source \in Actors, owner \in Actors, m \in Money :
        validate(bank, source, OpOpenAccount(owner, m), overflow_checks)
            = IF source # owner THEN Err("NotInitiatedByAccountOwner")
              ELSE IF owner \in Accounts THEN Err("OwnerAlreadyHasAnAccount")
              ELSE Ok

\* C9, the case reached: validate has just refused an account opening, and
\* some account is open, so that both refusals have a case.
OpenAccountRefused ==
    /\ last.call = "validate"
    /\ last.result = Err("OwnerAlreadyHasAnAccount")
    /\ Accounts # {}

\* C10 as stated: causal gating.  Whenever t.from and t.to have accounts and
\* t cites a transfer missing from history(t.from), validate(t.from, t) fails
\* with MissingDependentOps.
CausalGating ==
    \A t \in ProbeTransfers :
        (/\ t.from \in Accounts /\ t.to \in Accounts
         /\ ~(t.deps \subseteq history(bank, t.from))) =>
            validate(bank, t.from, OpTransfer(t), overflow_checks)
                = Err("MissingDependentOps")

\* C10 as amended: the same for a transfer whose amount balance(t.from)
\* covers; one it does not cover fails the earlier InsufficientFunds check.
CausalGatingWhenFunded ==
    \A t \in ProbeTransfers :
        (/\ t.from \in Accounts /\ t.to \in Accounts
         /\ ~(t.deps \subseteq history(bank, t.from))
         /\ Balance(t.from).tag = "Ret" /\ Balance(t.from).val >= t.amount) =>
            validate(bank, t.from, OpTransfer(t), overflow_checks)
                = Err("MissingDependentOps")

\* C10, the case reached: the replica has recorded a transfer between two
\* other accounts, and a funded transfer of a third one that cites it is
\* refused for its missing dependency.
CausalGatingReached ==
    \E x \in Accounts, y \in Accounts :
        \E u \in Recorded(bank) \ history(bank, x) :
            /\ Balance(x) = Ret(1)
            /\ validate(bank, x, OpTransfer(Transfer(x, y, 1, {u})),
                        overflow_checks) = Err("MissingDependentOps")

\* Does every account's balance() return a value on this Bank?
BalancesReturn(b) ==
    \A x \in DOMAIN b.initial_balances :
        balance(b, x, overflow_checks).tag = "Ret"

\* C11: a transfer that goes through moves exactly its amount.  Whenever
\* every balance can be read and validate(t.from, t) answers Ok for a transfer
\* between two different accounts, then after apply(t) balance(t.from) is
\* lower by t.amount, balance(t.to) is higher by t.amount and every other
\* balance is what it was.
TransferMovesAmount ==
    \A t \in ProbeTransfers :
        (/\ BalancesReturn(bank)
         /\ t.from # t.to
         /\ validate(bank, t.from, OpTransfer(t), overflow_checks) = Ok) =>
            LET after == apply(bank, OpTransfer(t))
            IN  /\ balance(after, t.from, overflow_checks)
                       = Ret(Balance(t.from).val - t.amount)
                /\ balance(after, t.to, overflow_checks)
                       = Ret(Balance(t.to).val + t.amount)
                /\ \A x \in Accounts \ {t.from, t.to} :
                       balance(after, x, overflow_checks) = Balance(x)

\* C11 without the bounded arithmetic: the balances the ledger entitles
\* t.from and t.to to move by t.amount.  Violated as well: a transfer equal to
\* a recorded one passes validate again and its apply records nothing.
TransferMovesLedgerAmount ==
    \A t \in ProbeTransfers :
        (/\ t.from # t.to
         /\ validate(bank, t.from, OpTransfer(t), overflow_checks) = Ok) =>
            LET after == apply(bank, OpTransfer(t))
            IN  /\ LedgerBalance(after, t.from)
                       = LedgerBalance(bank, t.from) - t.amount
                /\ LedgerBalance(after, t.to)
                       = LedgerBalance(bank, t.to) + t.amount

\* What does hold of the code: a transfer the replica has not recorded yet
\* moves exactly its amount on the ledger and touches no other account.
NewTransferMovesLedgerAmount ==
    \A t \in ProbeTransfers \ Recorded(bank) :
        (/\ t.from # t.to
         /\ validate(bank, t.from, OpTransfer(t), overflow_checks) = Ok) =>
            LET after == apply(bank, OpTransfer(t))
            IN  /\ LedgerBalance(after, t.from)
                       = LedgerBalance(bank, t.from) - t.amount
                /\ LedgerBalance(after, t.to)
                       = LedgerBalance(bank, t.to) + t.amount
                /\ \A x \in Accounts \ {t.from, t.to} :
                       LedgerBalance(after, x) = LedgerBalance(bank, x)

\* The verdicts that are a ValidationError
Errors ==
    {"NotInitiatedByAccountOwner", "FromAccountDoesNotExist",
     "ToAccountDoesNotExist", "InsufficientFunds", "MissingDependentOps",
     "OwnerAlreadyHasAnAccount"}

\* C12: a rejected transfer attempt changes nothing.  When the owner of this
\* Bank asks it for transfer(from, to, amount) and is not from, or
\* balance(from) is below amount, then no op comes out (transfer returns None,
\* or aborts where balance(from) aborts), or the op that comes out gets a
\* ValidationError from validate on every replica, so that none applies it.
RejectedAttemptChangesNothing ==
    \A from \in Actors, to \in Actors, m \in Money :
        LET built == transfer(bank, from, to, m, overflow_checks)
        IN  (\/ bank.id # from
             \/ Balance(from).tag = "Ret" /\ Balance(from).val < m) =>
                \/ built.tag \in {"None", "Panic"}
                \/ /\ built.tag = "Some"
                   /\ \A r \in Replicas :
                          validate(banks[r], bank.id, built.op,
                                   overflow_checks).tag \in Errors

\* C12, the case reached: the Bank has a frontier, builds a transfer out of
\* another account's funds, which validate refuses for its sender, and
\* declines one that its own account cannot fund.
RejectedAttemptReached ==
    /\ bank.deps # {}
    /\ \E from \in Accounts \ {bank.id}, to \in Accounts :
           LET built == transfer(bank, from, to, 1, overflow_checks)
           IN  /\ built = Some(OpTransfer(Transfer(from, to, 1, bank.deps)))
               /\ validate(bank, bank.id, built.op, overflow_checks)
                      = Err("NotInitiatedByAccountOwner")
    /\ Balance(bank.id) = Ret(0)
    /\ transfer(bank, bank.id, "b", 1, overflow_checks) = None

\* C13: a self-transfer is balance-neutral.  Whenever every balance can be
\* read and validate answers Ok for a transfer with from = to, then after its
\* apply balance() returns for every account what it returned before.
SelfTransferNeutral ==
    \A t \in ProbeTransfers :
        (/\ BalancesReturn(bank)
         /\ t.from = t.to
         /\ validate(bank, t.from, OpTransfer(t), overflow_checks) = Ok) =>
            \A x \in Accounts :
                balance(apply(bank, OpTransfer(t)), x, overflow_checks)
                    = Balance(x)

\* What does hold of the code: a validated self-transfer leaves the balance
\* the ledger entitles every account to as it was.
SelfTransferLedgerNeutral ==
    \A t \in ProbeTransfers :
        (/\ t.from = t.to
         /\ validate(bank, t.from, OpTransfer(t), overflow_checks) = Ok) =>
            \A x \in Accounts :
                LedgerBalance(apply(bank, OpTransfer(t)), x)
                    = LedgerBalance(bank, x)

UnknownActorNeverAborts ==
    \A actor \in Actors \ Accounts :
        /\ initial_balance(bank, actor).tag # "Panic"
        /\ Balance(actor).tag # "Panic"
        /\ \A to \in Actors, m \in Money :
               transfer(bank, actor, to, m, overflow_checks).tag # "Panic"

\* C16: deps stays within the Bank's own history.  After any sequence of
\* apply calls, validated or not and repeated or not, every transfer in deps
\* is in hist[id].
DepsWithinOwnHistory ==
    \A r \in Replicas : banks[r].deps \subseteq history(banks[r], banks[r].id)

\* C16, the case reached: a Bank on which no account was ever opened has been
\* made to apply a receipt and then a transfer of its own that cites it, which
\* has taken the receipt out of its frontier again.
DepsAfterUnvalidatedApplies ==
    /\ Accounts = {}
    /\ \E u \in history(bank, bank.id) :
           /\ u.from = bank.id /\ u.to # bank.id
           /\ \E t \in u.deps \cap history(bank, bank.id) :
                  t.to = bank.id /\ t \notin bank.deps

\* C17: hist is append-only.  Every apply step, validated or not, leaves every
\* key of hist in place and every actor's history at least what it was.
HistAppendOnly ==
    [][\A r \in Replicas : \A x \in DOMAIN banks[r].hist :
           /\ x \in DOMAIN banks'[r].hist
           /\ banks[r].hist[x] \subseteq banks'[r].hist[x]]_vars

\* C17, the case reached: an actor's history has grown twice, the second time
\* by a transfer that cites the first.
HistHasGrownTwice ==
    \E x \in DOMAIN bank.hist :
        \E t \in bank.hist[x], u \in bank.hist[x] : t \in u.deps

\* C18: initial_balances is write-once per actor.  Every validated apply step
\* leaves every entry of initial_balances in place and at its value.
InitialBalancesWriteOnce ==
    [][\A r \in Replicas : \A o \in DOMAIN banks[r].initial_balances :
           /\ o \in DOMAIN banks'[r].initial_balances
           /\ banks'[r].initial_balances[o] = banks[r].initial_balances[o]]_vars

\* C18, the case reached: every actor has opened its account, with different
\* balances, and transfers have been applied since.
InitialBalancesKept ==
    /\ Accounts = Actors
    /\ \E o \in Accounts, p \in Accounts :
           bank.initial_balances[o] # bank.initial_balances[p]
    /\ Cardinality(Recorded(bank)) = MaxHist

\* The ops whose verdict the claims follow from one state to the next
ProbeOps == OpenOps \cup {OpTransfer(t) : t \in ProbeTransfers}

\* The ValidationErrors that no later state of the replica can turn into Ok
Terminal == {"NotInitiatedByAccountOwner", "OwnerAlreadyHasAnAccount"}

\* C19 as stated: only MissingDependentOps is retryable.  An op from a source
\* for which validate returns another ValidationError is not given Ok after
\* the next validated apply either (and so after none).
OnlyMissingDepsRetryable ==
    [][\A source \in Actors : \A op \in ProbeOps :
           validate(bank, source, op, overflow_checks).tag
                   \in Errors \ {"MissingDependentOps"}
               => validate(banks'[Primary], source, op, overflow_checks) # Ok]_vars

\* C19 as amended: NotInitiatedByAccountOwner and OwnerAlreadyHasAnAccount are
\* terminal: an op from a source that is given one of them is given the same
\* one after every further validated apply.
TerminalErrorsStay ==
    [][\A source \in Actors : \A op \in ProbeOps :
           validate(bank, source, op, overflow_checks).tag \in Terminal
               => validate(banks'[Primary], source, op, overflow_checks)
                      = validate(bank, source, op, overflow_checks)]_vars

\* C19, the case reached: after transfers have been applied, an account
\* opening is refused for its existing account and a transfer for its sender.
TerminalErrorsReached ==
    /\ Cardinality(Recorded(bank)) = MaxHist
    /\ \E o \in Accounts, p \in Accounts :
           /\ o # p
           /\ validate(bank, o, OpOpenAccount(o, 0), overflow_checks)
                  = Err("OwnerAlreadyHasAnAccount")
           /\ validate(bank, p, OpTransfer(Transfer(o, p, 0, {})), overflow_checks)
                  = Err("NotInitiatedByAccountOwner")

\* C20: balance is the initial balance plus the receipts minus the payments.
\* After any sequence of validated applies, for every account balance(actor)
\* returns initial_balance(actor) plus the amounts received minus the amounts
\* sent in history(actor); an account no transfer has touched yet has the
\* balance it was opened with.
BalanceIsLedgerBalance ==
    \A x \in Accounts :
        /\ Balance(x) = Ret(LedgerBalance(bank, x))
        /\ history(bank, x) = {} => Balance(x) = Ret(bank.initial_balances[x])

\* What does hold of the code: balance() returns that value whenever the sum
\* of the receipts and the sum of the payments fit Money and the result lies
\* in Money's range, and always for an account no transfer has touched.
BalanceIsLedgerBalanceWhereItFits ==
    \A x \in Accounts :
        /\ (/\ SumAmounts({t \in history(bank, x) : t.to = x}) <= MoneyMax
            /\ SumAmounts({t \in history(bank, x) : t.from = x}) <= MoneyMax
            /\ LedgerBalance(bank, x) \in Money)
               => Balance(x) = Ret(LedgerBalance(bank, x))
        /\ history(bank, x) = {} => Balance(x) = Ret(bank.initial_balances[x])

ClaimedBuilt(from, to, amount) ==
    IF LedgerBalance(bank, from) < amount THEN None
    ELSE Some(OpTransfer(Transfer(from, to, amount, bank.deps)))

\* C22: the builder.  In every state, for every account from, every to and
\* every amount, transfer(from, to, amount) returns no op when the balance of
\* from is below amount and otherwise the transfer from -> to of that amount
\* citing the Bank's deps.
BuilderResult ==
    \A from \in Accounts, to \in Actors, m \in Money :
        transfer(bank, from, to, m, overflow_checks) = ClaimedBuilt(from, to, m)

\* What does hold of the code: the builder returns that wherever balance(from)
\* returns the balance the ledger entitles from to.
BuilderResultWhereBalanceIsRight ==
    \A from \in Accounts, to \in Actors, m \in Money :
        Balance(from) = Ret(LedgerBalance(bank, from)) =>
            transfer(bank, from, to, m, overflow_checks)
                = ClaimedBuilt(from, to, m)

\* The frame of apply(Transfer t) from Bank b to Bank after
TransferFrame(b, t, after) ==
    /\ after.id = b.id
    /\ after.initial_balances = b.initial_balances
    /\ DOMAIN after.hist = DOMAIN b.hist \cup {t.from, t.to}
    /\ \A x \in DOMAIN after.hist :
           after.hist[x] = IF x \in {t.from, t.to}
                           THEN history(b, x) \cup {t}
                           ELSE b.hist[x]
    /\ t.to # b.id => after.deps \subseteq b.deps
    /\ t.from # b.id => b.deps \subseteq after.deps
    /\ (t.to # b.id /\ t.from # b.id) => after.deps = b.deps
    /\ (t.to = b.id /\ t.from # b.id) => after.deps = b.deps \cup {t}
    /\ (t.to # b.id /\ t.from = b.id) => after.deps = b.deps \ t.deps
    /\ (t.to = b.id /\ t.from = b.id) =>
           after.deps = (b.deps \cup {t}) \ t.deps

\* The frame of apply(OpenAccount{owner, balance}) from Bank b to Bank after
OpenAccountFrame(b, owner, bal, after) ==
    /\ after.id = b.id
    /\ after.hist = b.hist
    /\ after.deps = b.deps
    /\ DOMAIN after.initial_balances = DOMAIN b.initial_balances \cup {owner}
    /\ after.initial_balances[owner] = bal
    /\ \A x \in DOMAIN b.initial_balances \ {owner} :
           after.initial_balances[x] = b.initial_balances[x]

\* C23: the frame of apply.  On every Bank, however it was reached, apply of
\* a transfer t records t under t.from and t.to and under nobody else, keeps
\* initial_balances, adds t to deps only when t.to is the Bank's id and takes
\* t.deps out of deps only when t.from is; apply of an account opening sets
\* the owner's initial balance and keeps everything else.
ApplyFrame ==
    /\ \A t \in ProbeTransfers :
           TransferFrame(bank, t, apply(bank, OpTransfer(t)))
    /\ \A owner \in Actors, m \in Money :
           OpenAccountFrame(bank, owner, m,
                            apply(bank, OpOpenAccount(owner, m)))

\* C23, the case reached: the Bank has a frontier of which a transfer of its
\* own cites a part, so that its apply takes that part out and nothing else,
\* and a receipt that its apply adds.
ApplyFrameReached ==
    /\ bank.deps # {}
    /\ \E t \in ProbeTransfers :
           /\ t.from = bank.id /\ t.to # bank.id
           /\ t.deps \cap bank.deps # {}
           /\ apply(bank, OpTransfer(t)).deps = bank.deps \ t.deps
    /\ \E t \in ProbeTransfers \ Recorded(bank) :
           /\ t.to = bank.id /\ t.from # bank.id
           /\ apply(bank, OpTransfer(t)).deps = bank.deps \cup {t}

\* The receipts of the Bank's own account that no recorded transfer of that
\* account cites
UnspentReceipts(b) ==
    {t \in history(b, b.id) :
        /\ t.to = b.id
        /\ \A u \in history(b, b.id) : u.from = b.id => t \notin u.deps}

\* C24: deps is the unspent-receipt frontier.  After any sequence of validated
\* applies, deps is exactly the set of transfers received by id that no
\* recorded outgoing transfer of id cites.
DepsIsUnspentFrontier == bank.deps = UnspentReceipts(bank)

\* C25: causal closure of history.  After any sequence of validated applies,
\* every transfer that a recorded transfer t cites is recorded in the history
\* of t.from.
CausalClosure ==
    \A x \in DOMAIN bank.hist : \A t \in bank.hist[x] :
        t.deps \subseteq history(bank, t.from)

\* C25, the case reached: a recorded transfer cites a recorded receipt of its
\* sender, while a transfer citing one the replica never saw is refused.
CitedTransferRecorded ==
    /\ \E t \in Recorded(bank) : \E d \in t.deps :
           d.to = t.from /\ d.from # t.from /\ d \in history(bank, t.from)
    /\ \E f \in Accounts, to \in Accounts :
           validate(bank, f, OpTransfer(Transfer(f, to, 0, {Foreign})),
                    overflow_checks) = Err("MissingDependentOps")

\* C26: no intermediate overflow in balance.  After any sequence of validated
\* applies, for every account whose true balance lies in Money's range,
\* balance() returns that balance, however large the separate sums of its
\* receipts and of its payments are.
NoIntermediateOverflow ==
    \A x \in Accounts :
        LedgerBalance(bank, x) \in Money =>
            Balance(x) = Ret(LedgerBalance(bank, x))

\* What does hold of the code: balance() never aborts nor wraps while the sum
\* of the receipts and the sum of the payments each fit Money.
NoOverflowWhileSumsFit ==
    \A x \in Accounts :
        (/\ LedgerBalance(bank, x) \in Money
         /\ SumAmounts({t \in history(bank, x) : t.to = x}) <= MoneyMax
         /\ SumAmounts({t \in history(bank, x) : t.from = x}) <= MoneyMax)
            => Balance(x) = Ret(LedgerBalance(bank, x))

\* C27: every party to a recorded transfer has an account.  After any
\* sequence of validated applies, every key of hist and the from and the to
\* of every recorded transfer are keys of initial_balances, and balance()
\* meets no missing initial balance for any actor of the ledger.
PartiesHaveAccounts ==
    /\ DOMAIN bank.hist \subseteq Accounts
    /\ \A t \in Recorded(bank) : {t.from, t.to} \subseteq Accounts
    /\ \A x \in DOMAIN bank.hist : Balance(x).why # "No initial balance"

\* C27, the case reached: transfers are recorded between accounts while a
\* third actor has none, and a transfer to that actor is refused.
PartiesHaveAccountsReached ==
    /\ Recorded(bank) # {}
    /\ \E f \in Accounts, to \in Actors \ Accounts :
           /\ Balance(f) = Ret(1)
           /\ validate(bank, f, OpTransfer(Transfer(f, to, 1, {})),
                       overflow_checks) = Err("ToAccountDoesNotExist")

\* C28: validate never reaches the missing-account panic.  On every Bank,
\* however it was reached, for every source and op (a transfer between any
\* two actors, citing nothing or everything), validate does not abort for a
\* missing initial balance, and an op naming an actor without an account gets
\* Ok or a ValidationError.
ValidateFindsNoMissingAccount ==
    /\ \A source \in Actors, f \in Actors, to \in Actors, m \in Money :
           \A d \in {{}, Recorded(bank) \cup {Foreign}} :
               LET verdict == validate(bank, source,
                                       OpTransfer(Transfer(f, to, m, d)),
                                       overflow_checks)
               IN  /\ verdict.why # "No initial balance"
                   /\ ~({f, to} \subseteq Accounts) => verdict.tag \in Errors
    /\ \A source \in Actors, op \in OpenOps :
           validate(bank, source, op, overflow_checks).tag
               \in Errors \cup {"Ok"}

\* C28, the case reached: the Bank was made to record a transfer of an actor
\* that has no account, balance() of that actor would panic, and validate
\* still answers a transfer of that actor with FromAccountDoesNotExist.
ValidateOnUnknownActor ==
    \E x \in DOMAIN bank.hist \ Accounts :
        /\ Balance(x).tag = "Panic"
        /\ \E t \in bank.hist[x] :
               /\ t.from = x
               /\ validate(bank, x, OpTransfer(t), overflow_checks)
                      = Err("FromAccountDoesNotExist")

\* C29: structurally equal transfers are one ledger entry.  After any sequence
\* of validated applies, applying again a transfer equal to a recorded one
\* leaves hist as it is and balance() of every actor returning what it
\* returned, whether or not validate answers Ok for it.
EqualTransferIsOneEntry ==
    \A t \in Recorded(bank) :
        LET after == apply(bank, OpTransfer(t))
        IN  /\ after.hist = bank.hist
            /\ \A x \in Actors : balance(after, x, overflow_checks) = Balance(x)

\* C29, the case reached: a transfer of 1 between two accounts is recorded
\* beside another transfer, its sender holds 1 again, and validate answers Ok
\* for the same transfer submitted once more.
EqualTransferAccepted ==
    \E t \in Recorded(bank) :
        /\ t.amount = 1 /\ t.from # t.to
        /\ Cardinality(history(bank, t.from)) = 2
        /\ Balance(t.from) = Ret(1)
        /\ validate(bank, t.from, OpTransfer(t), overflow_checks) = Ok
====
